---- MODULE Spec2Model ----
(***************************************************************************)
(* Model of the llm-gateway forwarding engine (services/forwarder.js), its *)
(* health tracker (utils/weight.js) and its trace/stat store (utils/db.js).*)
(*                                                                         *)
(* Representation notes                                                    *)
(*  - JS null/undefined in a string-valued field is the string Null.       *)
(*  - A weight is the exact quotient baseWeight / penalty, kept as the     *)
(*    pair [num, den] with den > 0 and compared by cross-multiplication.   *)
(*    Within the bounds below the IEEE-754 quotients of the code compare   *)
(*    exactly as these rationals do.                                       *)
(*  - attemptLog.status is a number or, for a transport error that carries *)
(*    a code, that code string: the pair (status, code) holds the string   *)
(*    in code when code # "" and the number in status otherwise.           *)
(*  - Spec keeps one inbound request in flight at a time; requests follow  *)
(*    one another and share the tracker, the stats file and the log.       *)
(***************************************************************************)
EXTENDS Integers, Sequences, FiniteSets, TLC

VARIABLES
    groups,     \* groups.json: group name -> record (a malformed one lacks "providers")
    providers,  \* providers.json: provider name -> record
    errors,     \* errorTracker.errors: provider name -> sequence of [timestamp, status]
    now,        \* Date.now(), in ms
    stats,      \* stats.json: provider name -> lifetime failures
    incTasks,   \* db.incFailure calls started and not yet settled
    logFile,    \* today's log file: ids of the trace lines appended, in file order
    pendingLog, \* fs.appendFile calls issued by db.logRequest and not yet completed
    served,     \* number of inbound requests accepted so far
    req,        \* the inbound request being handled by handleForwarding
    wres,       \* argument and result of the last errorTracker.getWeight call
    route,      \* group and result of the last candidate ordering (forwarder lines 59-76)
    keys,       \* keys.json: key id -> record
    stderr,     \* the messages written with console.error so far, as a set
    admin,      \* admin API: db.write calls in progress, creates answered, last list
    gate        \* apiKeyAuth: the Authorization header of the last inbound request
                \* and what the middleware did with it

vars == <<groups, providers, errors, now, stats, incTasks, logFile, pendingLog,
          served, req, wres, route, keys, stderr, admin, gate>>

----------------------------------------------------------------------------
(* Bounds of the model *)

MaxRequests == 2    \* inbound requests per behaviour
MaxChunks == 2      \* chunks of one streamed upstream body
MaxEvents == 2      \* health events recorded directly per provider (SpecWeight)
MaxTime == 90000    \* the clock stops advancing here

TickSteps == {60000}     \* clock steps of Spec
WTickSteps == {30000}    \* clock steps of SpecWeight

Null == "null"

----------------------------------------------------------------------------
(* utils/weight.js *)

WINDOW_MS == 60 * 1000
PENALTY_429 == 5
PENALTY_5XX == 3

\* faulty variant, used to test the properties: a 429 is not counted
IsPenalizingOnly5xx(status) == status >= 500 /\ status < 600

IsPenalizing(status) == status = 429 \/ (status >= 500 /\ status < 600)

\* faulty variant, used to test the properties: nothing ever leaves the window
KeepAll(seq, t) == seq

\* faulty variant, used to test the properties: an event of age exactly WINDOW_MS is kept
KeepUpToWindow(seq, t) == SelectSeq(seq, LAMBDA err : t - err.timestamp <= WINDOW_MS)

KeepWithinWindow(seq, t) == SelectSeq(seq, LAMBDA err : t - err.timestamp < WINDOW_MS)

cleanup(errs, providerName, t) ==
    IF providerName \in DOMAIN errs
    THEN [errs EXCEPT ![providerName] = KeepWithinWindow(@, t)]
    ELSE errs

recordError(errs, providerName, status, t) ==
    LET created == IF providerName \in DOMAIN errs
                   THEN errs
                   ELSE errs @@ (providerName :> <<>>)
    IN  IF IsPenalizing(status)
        THEN cleanup([created EXCEPT ![providerName] =
                         Append(@, [timestamp |-> t, status |-> status])],
                     providerName, t)
        ELSE created

\* faulty variant, used to test the properties: every error costs the 5xx factor
RECURSIVE PenaltyLoopFlat(_, _)
PenaltyLoopFlat(recentErrors, penalty) ==
    IF recentErrors = <<>> THEN penalty
    ELSE PenaltyLoopFlat(Tail(recentErrors), penalty * PENALTY_5XX)

RECURSIVE PenaltyLoop(_, _)
PenaltyLoop(recentErrors, penalty) ==
    IF recentErrors = <<>> THEN penalty
    ELSE LET err == Head(recentErrors)
             next == IF err.status = 429 THEN penalty * PENALTY_429
                     ELSE IF err.status >= 500 /\ err.status < 600
                          THEN penalty * PENALTY_5XX
                          ELSE penalty
         IN  PenaltyLoop(Tail(recentErrors), next)

\* errorTracker.errors after getWeight's leading cleanup
getWeightErrors(errs, providerName, t) == cleanup(errs, providerName, t)

\* the value getWeight returns
getWeight(errs, providerName, baseWeight, t) ==
    LET cleaned == getWeightErrors(errs, providerName, t)
        recentErrors == IF providerName \in DOMAIN cleaned
                        THEN cleaned[providerName] ELSE <<>>
    IN  IF Len(recentErrors) = 0
        THEN [num |-> baseWeight, den |-> 1]
        ELSE [num |-> baseWeight, den |-> PenaltyLoop(recentErrors, 1)]

\* the value getStats returns (lines 46-51), after its leading cleanup
getStats(errs, providerName, t) ==
    LET cleaned == cleanup(errs, providerName, t)
        list == IF providerName \in DOMAIN cleaned THEN cleaned[providerName] ELSE <<>>
    IN  [recentErrors |-> Len(list), windowMs |-> WINDOW_MS,
         lastError |-> IF Len(list) > 0 THEN <<list[Len(list)]>> ELSE <<>>]

\* sign-preserving comparison of two quotients
WLess(a, b) == a.num * b.den < b.num * a.den
WEq(a, b) == a.num * b.den = b.num * a.den

----------------------------------------------------------------------------
(* Configuration store: the documents the engine reads *)

Fillers == <<"f1", "f2", "f3", "f4", "f5", "f6", "f7", "f8", "f9", "f10", "f11">>
Tracked == {"pA", "pB"}
StoredProviders == Tracked \cup {Fillers[i] : i \in 1..Len(Fillers)}

InitProviders ==
    [n \in StoredProviders |->
        [name |-> n, key |-> <<"sk", n>>,
         realModel |-> IF n = "pA" THEN "real-A" ELSE Null]]

\* "pX" is named by groups and absent from providers.json; "bad" was stored
\* without a providers list (POST /admin/api/groups only requires a name).
InitGroups ==
    ("g"    :> [name |-> "g", type |-> "openai", providers |-> <<"pA", "pX", "pB">>]) @@
    ("e"    :> [name |-> "e", type |-> "openai", providers |-> <<"pX">>]) @@
    ("bad"  :> [name |-> "bad", type |-> "openai"]) @@
    ("dup"  :> [name |-> "dup", type |-> "openai", providers |-> <<"pA", "pB", "pA">>]) @@
    ("tie"  :> [name |-> "tie", type |-> "openai",
                providers |-> <<"pA", "f1", "f2", "f3", "pB">>]) @@
    ("long" :> [name |-> "long", type |-> "openai",
                providers |-> Fillers \o <<"pA", "pB">>])

InitKeys == ("k1" :> [id |-> "k1", name |-> "alice", key |-> "tokA"])

----------------------------------------------------------------------------
(* middlewares/auth.js: apiKeyAuth *)

\* An Authorization header is Null when absent, else the sequence
\* header.split(' '): <<"Bearer", "tokA">> is "Bearer tokA", <<"Bearer", "">>
\* is "Bearer " and <<"Bearer">> is "Bearer".
\* no Authorization header (req.headers.authorization is undefined)
NoHeader == <<>>

AuthHeaders ==
    {NoHeader, <<"Basic", "YWRtaW46MTIzNDU2">>, <<"Bearer">>, <<"Bearer", "">>,
     <<"Bearer", "tokA">>, <<"Bearer", "tokB">>, <<"Bearer", "tokN">>}

\* line 18: authHeader.startsWith('Bearer ')
StartsWithBearer(authHeader) == Len(authHeader) >= 2 /\ authHeader[1] = "Bearer"

NoGate == [auth |-> NoHeader, passed |-> FALSE, status |-> 0, error |-> "", keyName |-> Null]

\* faulty variant, used to test the properties: any Bearer header is let through
apiKeyAuthAnyBearer(keysData, authHeader) ==
    IF authHeader = NoHeader \/ ~StartsWithBearer(authHeader)
    THEN [NoGate EXCEPT !.auth = authHeader, !.status = 401, !.error = "Missing Bearer Token"]
    ELSE [NoGate EXCEPT !.auth = authHeader, !.passed = TRUE, !.keyName = "alice"]

\* lines 16-32: what the middleware answers, or that it called next()
apiKeyAuth(keysData, authHeader) ==
    IF authHeader = NoHeader \/ ~StartsWithBearer(authHeader)
    THEN [NoGate EXCEPT !.auth = authHeader, !.status = 401, !.error = "Missing Bearer Token"]
    ELSE LET token == authHeader[2]
             valid == {k \in DOMAIN keysData :
                          "key" \in DOMAIN keysData[k] /\ keysData[k].key = token}
         IN  IF valid = {}
             THEN [NoGate EXCEPT !.auth = authHeader, !.status = 401,
                                 !.error = "Invalid Access Key"]
             ELSE [NoGate EXCEPT !.auth = authHeader, !.passed = TRUE,
                                 !.keyName = keysData[CHOOSE k \in valid : TRUE].name]

----------------------------------------------------------------------------
(* services/forwarder.js: routing and candidate ordering *)

\* Array.prototype.indexOf: zero-based index of the first occurrence, -1 if none
IndexOf(seq, x) ==
    IF \E i \in 1..Len(seq) : seq[i] = x
    THEN (CHOOSE i \in 1..Len(seq) :
             seq[i] = x /\ \A j \in 1..(i - 1) : seq[j] # x) - 1
    ELSE -1

\* Object.values(groups).find(g => g.name === requestModel): the key, or Null
FindGroup(grps, requestModel) ==
    IF \E k \in DOMAIN grps : grps[k].name = requestModel
    THEN CHOOSE k \in DOMAIN grps : grps[k].name = requestModel
    ELSE Null

\* group.providers.map(pName => providersData[pName]).filter(p => p !== undefined)
ExistingCandidates(group, providersData) ==
    LET names == SelectSeq(group.providers, LAMBDA pName : pName \in DOMAIN providersData)
    IN  [i \in 1..Len(names) |-> providersData[names[i]]]

\* faulty variant, used to test the properties: the index is taken in the list of the
\* providers that exist
BaseWeightAmongExisting(group, p) ==
    1000 - IndexOf(SelectSeq(group.providers, LAMBDA n : n \in StoredProviders), p.name) * 100

BaseWeight(group, p) == 1000 - IndexOf(group.providers, p.name) * 100

\* errorTracker.errors after the getWeight call of every candidate
RECURSIVE ErrorsAfterWeights(_, _, _)
ErrorsAfterWeights(errs, cands, t) ==
    IF cands = <<>> THEN errs
    ELSE ErrorsAfterWeights(getWeightErrors(errs, Head(cands).name, t), Tail(cands), t)

\* candidates.map(p => ({...p, _calcWeight, _baseWeight}))
WithWeights(group, cands, errs, t) ==
    [i \in 1..Len(cands) |->
        [name |-> cands[i].name, key |-> cands[i].key, realModel |-> cands[i].realModel,
         calcWeight |-> getWeight(errs, cands[i].name, BaseWeight(group, cands[i]), t),
         baseWeight |-> BaseWeight(group, cands[i])]]

\* the comparator (a, b) => b._calcWeight - a._calcWeight, as its sign
CompareFn(a, b) ==
    IF WLess(a.calcWeight, b.calcWeight) THEN 1
    ELSE IF WLess(b.calcWeight, a.calcWeight) THEN -1 ELSE 0

\* faulty variant, used to test the properties: an unstable sort, equal elements change places
RECURSIVE InsertUnstable(_, _)
InsertUnstable(sorted, x) ==
    IF sorted = <<>> THEN <<x>>
    ELSE IF CompareFn(x, Head(sorted)) <= 0
         THEN <<x>> \o sorted
         ELSE <<Head(sorted)>> \o InsertUnstable(Tail(sorted), x)

\* Array.prototype.sort is stable: x, which followed every element of sorted in
\* the input, goes before the first element it must precede
RECURSIVE InsertStable(_, _)
InsertStable(sorted, x) ==
    IF sorted = <<>> THEN <<x>>
    ELSE IF CompareFn(x, Head(sorted)) < 0
         THEN <<x>> \o sorted
         ELSE <<Head(sorted)>> \o InsertStable(Tail(sorted), x)

RECURSIVE SortStable(_, _)
SortStable(done, rest) ==
    IF rest = <<>> THEN done
    ELSE SortStable(InsertStable(done, Head(rest)), Tail(rest))

SortCandidates(cands) == SortStable(<<>>, cands)

\* lines 59-71: the candidate list the attempt loop iterates
Candidates(group, providersData, errs, t) ==
    SortCandidates(WithWeights(group, ExistingCandidates(group, providersData), errs, t))

\* Number.prototype.toFixed(1), as a count of tenths (half away from zero)
ToFixed1(w) ==
    IF w.num >= 0
    THEN (20 * w.num + w.den) \div (2 * w.den)
    ELSE -((20 * (-w.num) + w.den) \div (2 * w.den))

\* lines 73-76
TraceCandidates(cands) ==
    [i \in 1..Len(cands) |-> [name |-> cands[i].name, weight |-> ToFixed1(cands[i].calcWeight)]]

----------------------------------------------------------------------------
(* Values flowing through one request *)

\* a body: JSON value or text; data is the text's characters, or the words of a
\* gateway-made error object
NullBody == [kind |-> "null", from |-> "", data |-> <<>>]
NotFoundBody(requestModel) ==
    [kind |-> "error", from |-> "gateway", data |-> <<"Model group not found", requestModel>>]
MismatchBody == [kind |-> "error", from |-> "gateway", data |-> <<"Protocol mismatch.">>]
AllFailedBody(lastError) ==
    [kind |-> "error", from |-> "gateway",
     data |-> <<"All providers failed", IF lastError # Null THEN lastError ELSE "No providers">>]
UpstreamJson(providerName) == [kind |-> "json", from |-> providerName, data |-> <<>>]
Text(chars) == [kind |-> "text", from |-> "", data |-> chars]

\* what one upstream call can end in other than 2xx: axios rejects with
\* error.response (HTTP status) or without it (transport: error.code or nothing)
FailOutcomes ==
    { [kind |-> "http", status |-> 429, code |-> "ERR_BAD_REQUEST", body |-> "json",
       msg |-> "Request failed with status code 429"],
      [kind |-> "http", status |-> 503, code |-> "ERR_BAD_RESPONSE", body |-> "text",
       msg |-> "Request failed with status code 503"],
      [kind |-> "http", status |-> 404, code |-> "ERR_BAD_REQUEST", body |-> "empty",
       msg |-> "Request failed with status code 404"],
      [kind |-> "transport", status |-> 0, code |-> "ECONNABORTED", body |-> "none",
       msg |-> "timeout of 60000ms exceeded"],
      [kind |-> "transport", status |-> 0, code |-> "", body |-> "none",
       msg |-> "socket hang up"] }

SuccessStatuses == {200, 201}
\* the body a streaming upstream sends, as the chunks (Buffers of bytes) the
\* socket delivers: the two bytes of one UTF-8 character may arrive in two chunks
LeadByte == "0xC3"
ContByte == "0xA9"
StreamBody == << <<"h", LeadByte>>, <<ContByte, "l">>, <<"l", "o", "\n">> >>
ReqModels == {"g", "e", "bad", "none"}
ReqTypes == {"openai", "anthropic"}

NoOutcome == [kind |-> "none", status |-> 0, code |-> "", body |-> "none", msg |-> ""]

EmptyTrace(id, requestModel) ==
    [id |-> id,
     route |-> [targetModel |-> requestModel, group |-> Null, candidates |-> <<>>],
     attempts |-> <<>>, finalResponse |-> NullBody, status |-> 0]

\* the Express response object: status 0 until the head is sent, ended counts
\* the calls that complete the response (res.json, res.end), chunks lists the
\* arguments of the res.write calls, closed tells that the client has gone and
\* lateWrites counts the res.write calls made after that
\* In a request record, contacted lists the providers an upstream call was
\* issued to, outcomes what each call ended in, okAt the position of the
\* candidate that answered 2xx (0: none); logged lists the logRequest calls.
FreshRes == [status |-> 0, headersFrom |-> Null, body |-> NullBody, chunks |-> <<>>, ended |-> 0,
             closed |-> FALSE, lateWrites |-> 0]

\* body is req.body, sentBodies the data of the upstream calls issued, atStart the
\* tracker's map, stats.json and the clock as the request found them.
IdleReq ==
    [id |-> 0, pc |-> "idle", model |-> Null, type |-> Null, stream |-> FALSE,
     body |-> [model |-> Null, stream |-> FALSE, messages |-> Null], sentBodies |-> <<>>,
     candidates |-> <<>>, idx |-> 0, trace |-> EmptyTrace(0, Null), lastError |-> Null,
     res |-> FreshRes, contacted |-> <<>>, outcomes |-> <<>>, okAt |-> 0,
     upStatus |-> 0, pending |-> NoOutcome,
     received |-> <<>>, fullStreamData |-> <<>>, logged |-> <<>>,
     atStart |-> [errors |-> <<>>, stats |-> <<>>, now |-> 0]]

NewRequest(id, requestModel, type, stream) ==
    [IdleReq EXCEPT !.id = id, !.pc = "routing", !.model = requestModel, !.type = type,
                    !.stream = stream, !.trace = EmptyTrace(id, requestModel),
                    !.body = [model |-> requestModel, stream |-> stream,
                              messages |-> "user: hi"]]

\* res.status(status).json(body)
ResJson(r, status, body) ==
    [r EXCEPT !.res.status = status, !.res.body = body, !.res.ended = @ + 1]

\* res.write(chunk): the head goes out with the default status on the first write
ResWrite(r, chunk) ==
    [r EXCEPT !.res.status = IF @ = 0 THEN 200 ELSE @, !.res.chunks = Append(@, chunk),
              !.res.lateWrites = IF r.res.closed THEN @ + 1 ELSE @]

\* res.end()
ResEnd(r) ==
    [r EXCEPT !.res.status = IF @ = 0 THEN 200 ELSE @, !.res.ended = @ + 1]

\* lines 143-147: upstream response headers copied to the client response
ResSetHeaders(r, providerName) == [r EXCEPT !.res.headersFrom = providerName]

----------------------------------------------------------------------------
(* utils/db.js: logRequest *)

Sentinel == [kind |-> "text", from |-> "", data |-> <<"[Stream/Socket Data]">>]

\* line 61: typeof data.pipe === 'function' || data.socket, asked of the value
\* itself
IsHandle(data) == data.kind \in {"stream", "socket"}

sanitizeData(data) ==
    IF data.kind = "null" THEN data
    ELSE IF IsHandle(data) THEN Sentinel
    ELSE data

\* the part of logRequest that runs before its first await: the log entry is
\* built from the trace as it is now, and serialized
LogEntry(trace, providerName) ==
    [id |-> trace.id, route |-> trace.route,
     attempts |-> [i \in 1..Len(trace.attempts) |->
                     [trace.attempts[i] EXCEPT !.responseBody = sanitizeData(@),
                                               !.error = sanitizeData(@)]],
     finalResponse |-> sanitizeData(trace.finalResponse),
     status |-> trace.status, provider |-> providerName]

\* db.logRequest(..., providerName, ..., trace) called by request r; resEnded
\* remembers how far the client response was when the call was made
logRequest(r, providerName) ==
    [r EXCEPT !.logged = Append(@, [entry |-> LogEntry(r.trace, providerName),
                                    resEnded |-> r.res.ended])]

----------------------------------------------------------------------------
(* services/forwarder.js: handleForwarding *)

\* faulty variant, used to test the properties: the attempt stores the weight
\* the provider has when it is tried
AttemptLogLiveWeight(r) ==
    [provider |-> r.candidates[r.idx].name,
     weight |-> getWeight(errors, r.candidates[r.idx].name,
                          r.candidates[r.idx].baseWeight, now),
     status |-> 0, code |-> "", error |-> NullBody, isStreaming |-> r.stream,
     responseBody |-> NullBody]

\* lines 101-111
AttemptLog(r) ==
    [provider |-> r.candidates[r.idx].name, weight |-> r.candidates[r.idx].calcWeight,
     status |-> 0, code |-> "", error |-> NullBody, isStreaming |-> r.stream,
     responseBody |-> NullBody]

\* faulty variant, used to test the properties: trace.status is not set before the trace is logged
AllFailedStaleStatus(r) ==
    LET r1 == [r EXCEPT !.trace.finalResponse = AllFailedBody(r.lastError)]
        r2 == logRequest(r1, "All Failed")
        r3 == ResJson(r2, 502, r1.trace.finalResponse)
    IN  [r3 EXCEPT !.pc = "done"]

\* lines 238-244: every candidate failed, or there was none
AllFailed(r) ==
    LET r1 == [r EXCEPT !.trace.status = 502,
                        !.trace.finalResponse = AllFailedBody(r.lastError)]
        r2 == logRequest(r1, "All Failed")
        r3 == ResJson(r2, 502, r1.trace.finalResponse)
    IN  [r3 EXCEPT !.pc = "done"]

\* faulty variant, used to test the properties: the model is always provider.realModel
UpstreamDataRealModelOnly(body, provider, requestModel) ==
    [body EXCEPT !.model = provider.realModel]

\* line 120: { ...req.body, model: provider.realModel || requestModel }
UpstreamData(body, provider, requestModel) ==
    [body EXCEPT !.model = IF provider.realModel # Null /\ provider.realModel # ""
                           THEN provider.realModel ELSE requestModel]

\* faulty variant, used to test the properties: the calls to the next two candidates are
\* issued together
NextAttemptEager(r) ==
    IF r.idx < Len(r.candidates)
    THEN [r EXCEPT !.idx = @ + 1,
                   !.contacted = @ \o [i \in 1..(IF r.idx + 2 <= Len(r.candidates) THEN 2 ELSE 1)
                                          |-> r.candidates[r.idx + i].name],
                   !.pc = "awaiting"]
    ELSE AllFailed(r)

\* line 88 and line 126: the loop moves to its next candidate and awaits its
\* upstream call; with no candidate left the loop is over
NextAttempt(r) ==
    IF r.idx < Len(r.candidates)
    THEN [r EXCEPT !.idx = @ + 1,
                   !.contacted = Append(@, r.candidates[r.idx + 1].name),
                   !.sentBodies = Append(@, UpstreamData(r.body, r.candidates[r.idx + 1],
                                                         r.model)),
                   !.pc = "awaiting"]
    ELSE AllFailed(r)

\* faulty variant, used to test the properties: the protocol check is missing
NeverMismatch(group, type) == FALSE

\* line 52
ProtocolMismatch(group, type) == group.type # type

\* lines 40-87: from the group lookup to the first upstream call. A group
\* without a providers list makes group.providers.map throw: the promise of
\* handleForwarding rejects and nothing after line 60 runs.
Route(r, grps, providersData, errs, t) ==
    LET k == FindGroup(grps, r.model) IN
    IF k = Null
    THEN LET r1 == [r EXCEPT !.trace.status = 404,
                             !.trace.finalResponse = NotFoundBody(r.model)]
             r2 == logRequest(r1, "System")
             r3 == ResJson(r2, 404, r1.trace.finalResponse)
         IN  [r |-> [r3 EXCEPT !.pc = "done"], errs |-> errs]
    ELSE LET group == grps[k]
             rg == [r EXCEPT !.trace.route.group = group.name]
         IN  IF ProtocolMismatch(group, r.type)
             THEN LET r1 == [rg EXCEPT !.trace.status = 400,
                                       !.trace.finalResponse = MismatchBody]
                      r2 == logRequest(r1, "System")
                      r3 == ResJson(r2, 400, r1.trace.finalResponse)
                  IN  [r |-> [r3 EXCEPT !.pc = "done"], errs |-> errs]
             ELSE IF "providers" \notin DOMAIN group
             THEN [r |-> [rg EXCEPT !.pc = "crashed"], errs |-> errs]
             ELSE LET existing == ExistingCandidates(group, providersData)
                      cands == Candidates(group, providersData, errs, t)
                      r1 == [rg EXCEPT !.candidates = cands,
                                       !.trace.route.candidates = TraceCandidates(cands)]
                  IN  [r |-> NextAttempt(r1), errs |-> ErrorsAfterWeights(errs, existing, t)]

\* faulty variant, used to test the properties: the unary branch does not return, so the loop goes on
OnSuccessNoReturn(r, status) ==
    LET p == r.candidates[r.idx]
        r1 == ResSetHeaders(r, p.name)
    IN  IF r.stream
        THEN [r1 EXCEPT !.pc = "streaming", !.upStatus = status]
        ELSE LET data == UpstreamJson(p.name)
                 r2 == ResJson(r1, status, data)
                 att == [AttemptLog(r) EXCEPT !.status = status, !.responseBody = data]
                 r3 == [r2 EXCEPT !.trace.attempts = Append(@, att),
                                  !.trace.status = status,
                                  !.trace.finalResponse = data]
                 r4 == logRequest(r3, p.name)
             IN  NextAttempt(r4)

\* lines 128-207 up to the stream handlers: the upstream answered 2xx
OnSuccess(r, status) ==
    LET p == r.candidates[r.idx]
        r1 == ResSetHeaders(r, p.name)
    IN  IF r.stream
        THEN [r1 EXCEPT !.pc = "streaming", !.upStatus = status]
        ELSE LET data == UpstreamJson(p.name)
                 r2 == ResJson(r1, status, data)
                 att == [AttemptLog(r) EXCEPT !.status = status, !.responseBody = data]
                 r3 == [r2 EXCEPT !.trace.attempts = Append(@, att),
                                  !.trace.status = status,
                                  !.trace.finalResponse = data]
                 r4 == logRequest(r3, p.name)
             IN  [r4 EXCEPT !.pc = "done"]

\* line 154: Buffer.prototype.toString(), UTF-8 decoding of one chunk on its
\* own. A lead byte followed by its continuation byte is one character; a lead
\* byte with nothing valid after it, and a continuation byte with no lead
\* before it, each decode to the replacement character.
RECURSIVE ChunkToString(_)
ChunkToString(bytes) ==
    IF bytes = <<>> THEN <<>>
    ELSE IF Head(bytes) = LeadByte
         THEN IF Len(bytes) >= 2 /\ bytes[2] = ContByte
              THEN <<"U+00E9">> \o ChunkToString(Tail(Tail(bytes)))
              ELSE <<"U+FFFD">> \o ChunkToString(Tail(bytes))
    ELSE IF Head(bytes) = ContByte
         THEN <<"U+FFFD">> \o ChunkToString(Tail(bytes))
    ELSE <<Head(bytes)>> \o ChunkToString(Tail(bytes))

\* faulty variant, used to test the properties: the chunk is buffered and not forwarded
OnDataNoWrite(r, chunk) ==
    [r EXCEPT !.received = Append(@, chunk),
              !.fullStreamData = @ \o ChunkToString(chunk)]

\* lines 153-157
OnData(r, chunk) ==
    ResWrite([r EXCEPT !.received = Append(@, chunk),
                       !.fullStreamData = @ \o ChunkToString(chunk)], chunk)

\* lines 159-177
OnEnd(r) ==
    LET p == r.candidates[r.idx]
        r1 == ResEnd(r)
        att == [AttemptLog(r) EXCEPT !.status = r.upStatus,
                                     !.responseBody = Text(r.fullStreamData)]
        r2 == [r1 EXCEPT !.trace.attempts = Append(@, att),
                         !.trace.status = r.upStatus,
                         !.trace.finalResponse = Text(r.fullStreamData)]
        r3 == logRequest(r2, p.name)
    IN  [r3 EXCEPT !.pc = "done"]

\* faulty variant, used to test the properties: a mid-stream error is handled as a failed
\* attempt of the loop, which goes on with the next candidate
OnStreamErrorRetry(r, message) ==
    LET att == [AttemptLog(r) EXCEPT !.status = 500,
                                     !.error = Text(<<"Stream Error: ", message>>)]
    IN  NextAttempt([r EXCEPT !.trace.attempts = Append(@, att)])

\* lines 179-190
OnStreamError(r, message) ==
    LET p == r.candidates[r.idx]
        r1 == ResEnd(r)
        att == [AttemptLog(r) EXCEPT !.status = 500,
                                     !.error = Text(<<"Stream Error: ", message>>)]
        r2 == [r1 EXCEPT !.trace.finalResponse = Text(r.fullStreamData),
                         !.trace.attempts = Append(@, att)]
        r3 == logRequest(r2, p.name)
    IN  [r3 EXCEPT !.pc = "done"]

\* line 212
AttemptStatus(out) ==
    IF out.kind = "http" THEN [status |-> out.status, code |-> ""]
    ELSE IF out.code # "" THEN [status |-> 0, code |-> out.code]
    ELSE [status |-> 0, code |-> ""]

\* lines 215-223 when error.response.data is no stream (or there is no response)
ErrBodyPlain(out, providerName) ==
    IF out.kind = "http" /\ out.body = "json" THEN UpstreamJson(providerName)
    ELSE IF out.kind = "http" /\ out.body = "text"
         THEN [kind |-> "text", from |-> providerName, data |-> <<"error text">>]
    ELSE Text(<<out.msg>>)

\* lines 217-219: the error stream drained to a string, parsed as JSON if it can be
ErrBodyDrained(out, providerName, readOk) ==
    IF ~readOk THEN Text(<<"[Stream Read Error] ", "read failed">>)
    ELSE IF out.body = "json" THEN UpstreamJson(providerName)
    ELSE IF out.body = "text"
         THEN [kind |-> "text", from |-> providerName, data |-> <<"error text">>]
    ELSE Text(<<>>)

\* line 229
Penalized(out) ==
    LET st == AttemptStatus(out) IN st.code = "" /\ IsPenalizing(st.status)

\* faulty variant, used to test the properties: the failed attempt is not pushed onto trace.attempts
FinishFailureNoPush(r, out, errBody) ==
    NextAttempt([r EXCEPT !.lastError = out.msg, !.pending = NoOutcome])

\* lines 211-235 after the error body is known, then the loop goes on
FinishFailure(r, out, errBody) ==
    LET st == AttemptStatus(out)
        att == [AttemptLog(r) EXCEPT !.status = st.status, !.code = st.code,
                                     !.error = errBody]
        r1 == [r EXCEPT !.trace.attempts = Append(@, att), !.lastError = out.msg,
                        !.pending = NoOutcome]
    IN  NextAttempt(r1)

\* lines 229-231
FailureErrors(errs, r, out, t) ==
    IF Penalized(out)
    THEN recordError(errs, r.candidates[r.idx].name, AttemptStatus(out).status, t)
    ELSE errs

\* line 227: db.incFailure is started and not awaited
StartIncFailure(tasks, providerName) ==
    Append(tasks, [name |-> providerName, phase |-> "read", snap |-> <<>>])

----------------------------------------------------------------------------
(* utils/db.js: incFailure *)

\* lines 45-46 applied to the stats object read at line 44
Incremented(snap, providerName) ==
    LET present == IF providerName \in DOMAIN snap THEN snap
                   ELSE snap @@ (providerName :> 0)
    IN  [present EXCEPT ![providerName] = @ + 1]

RemoveAt(seq, i) == SubSeq(seq, 1, i - 1) \o SubSeq(seq, i + 1, Len(seq))

----------------------------------------------------------------------------
(* State machine *)

\* statsOf and stats are the argument and the result of a getStats call
\* (lastError is a sequence of at most one entry, empty for null)
NoStats == [recentErrors |-> 0, windowMs |-> 0, lastError |-> <<>>]
NoWres == [name |-> Null, base |-> 0, weight |-> [num |-> 0, den |-> 1], at |-> 0,
           before |-> <<>>, statsOf |-> Null, stats |-> NoStats,
           op |-> Null, inbound |-> <<>>, to |-> Null, type |-> Null,
           headers |-> <<>>, entry |-> <<>>, status |-> 0, was |-> <<>>]
NoRoute == [group |-> Null, candidates |-> <<>>, at |-> 0, before |-> <<>>]
NoAdmin == [writes |-> <<>>, acked |-> {}, last |-> <<>>, uuids |-> 0]

\* console.error lines: forwarder line 226, db.js line 97 (reached after every
\* completed append, where line 92 reads the undeclared name start), db.js
\* line 31, server.js line 149
FailMsg(providerName) == <<"[Fail]", providerName>>
LogErrMsg(cause) == <<"[IO Error] Log serialization/write failed:", cause>>
WriteErrMsg(file) == <<"[IO Error] Write failed:", file>>
RejectionMsg == <<"Unhandled Rejection:", "TypeError">>

Init ==
    /\ groups = InitGroups
    /\ providers = InitProviders
    /\ errors = <<>>
    /\ now = 0
    /\ stats = <<>>
    /\ incTasks = <<>>
    /\ logFile = <<>>
    /\ pendingLog = <<>>
    /\ served = 0
    /\ req = IdleReq
    /\ wres = NoWres
    /\ route = NoRoute
    /\ keys = InitKeys
    /\ stderr = {}
    /\ admin = NoAdmin
    /\ gate = NoGate

\* every logRequest call made in a step has issued one fs.appendFile
Commit(before, after) ==
    /\ req' = after
    /\ pendingLog' = pendingLog \o
           [i \in 1..(Len(after.logged) - Len(before.logged)) |-> after.id]

\* POST /v1/chat/completions or /v1/messages reaches handleForwarding, which
\* runs to its first await (or to its end). Spec takes the next request once
\* the previous one is over and its file operations have settled.
Receive(authHeader, requestModel, type, stream) ==
    /\ req.pc \in {"idle", "done", "crashed"}
    /\ incTasks = <<>> /\ pendingLog = <<>>
    /\ served < MaxRequests
    /\ apiKeyAuth(keys, authHeader).passed
    /\ gate' = apiKeyAuth(keys, authHeader)
    /\ LET r0 == [NewRequest(served + 1, requestModel, type, stream) EXCEPT
                     !.atStart = [errors |-> errors, stats |-> stats, now |-> now]]
           out == Route(r0, groups, providers, errors, now)
       IN  /\ Commit(r0, out.r)
           /\ errors' = out.errs
           /\ stderr' = IF out.r.pc = "crashed" THEN stderr \cup {RejectionMsg} ELSE stderr
    /\ served' = served + 1
    /\ UNCHANGED <<groups, providers, now, stats, incTasks, logFile, wres, route,
                   keys, admin>>

\* an inbound request that apiKeyAuth answers itself (lines 19 and 27): next()
\* is not called, so the route handler and handleForwarding do not run
Reject(authHeader) ==
    /\ req.pc \in {"idle", "done", "crashed"}
    /\ incTasks = <<>> /\ pendingLog = <<>>
    /\ ~apiKeyAuth(keys, authHeader).passed
    /\ gate' = apiKeyAuth(keys, authHeader)
    /\ UNCHANGED <<groups, providers, errors, now, stats, incTasks, logFile, pendingLog,
                   served, req, wres, route, keys, stderr, admin>>

\* what the upstream did, kept beside the request
Answered(r, out) == [r EXCEPT !.outcomes = Append(@, out)]
OkOutcome(status) ==
    [kind |-> "ok", status |-> status, code |-> "", body |-> "json", msg |-> ""]

\* faulty variant, used to test the properties: a success forgets the
\* provider's health events
UpstreamSuccessClearsHealth(status) ==
    /\ req.pc = "awaiting"
    /\ Commit(req, OnSuccess([Answered(req, OkOutcome(status)) EXCEPT !.okAt = req.idx],
                             status))
    /\ errors' = [q \in DOMAIN errors \ {req.candidates[req.idx].name} |-> errors[q]]
    /\ UNCHANGED <<groups, providers, now, stats, incTasks, logFile, served,
                   wres, route, keys, stderr, admin, gate>>

\* await axios(config) resolves: 2xx
UpstreamSuccess(status) ==
    /\ req.pc = "awaiting"
    /\ Commit(req, OnSuccess([Answered(req, OkOutcome(status)) EXCEPT !.okAt = req.idx],
                             status))
    /\ UNCHANGED <<groups, providers, errors, now, stats, incTasks, logFile, served,
                   wres, route,
                   keys, stderr, admin, gate>>

\* await axios(config) rejects
UpstreamFailure(out) ==
    /\ req.pc = "awaiting"
    /\ IF req.stream /\ out.kind = "http"
       THEN /\ req' = [Answered(req, out) EXCEPT !.pc = "draining", !.pending = out]
            /\ UNCHANGED <<errors, incTasks, pendingLog, stderr>>
       ELSE /\ Commit(req, FinishFailure(Answered(req, out), out,
                                         ErrBodyPlain(out, req.candidates[req.idx].name)))
            /\ errors' = FailureErrors(errors, req, out, now)
            /\ incTasks' = StartIncFailure(incTasks, req.candidates[req.idx].name)
            /\ stderr' = stderr \cup {FailMsg(req.candidates[req.idx].name)}
    /\ UNCHANGED <<groups, providers, now, stats, logFile, served, wres, route,
                   keys, admin, gate>>

\* await streamToString(error.response.data) settles
ErrorBodyDrained(readOk) ==
    /\ req.pc = "draining"
    /\ Commit(req, FinishFailure(req, req.pending,
                                 ErrBodyDrained(req.pending, req.candidates[req.idx].name,
                                                readOk)))
    /\ errors' = FailureErrors(errors, req, req.pending, now)
    /\ incTasks' = StartIncFailure(incTasks, req.candidates[req.idx].name)
    /\ stderr' = stderr \cup {FailMsg(req.candidates[req.idx].name)}
    /\ UNCHANGED <<groups, providers, now, stats, logFile, served, wres, route,
                   keys, admin, gate>>

\* response.data emits 'data' with the next chunk of the upstream body
StreamData ==
    /\ req.pc = "streaming"
    /\ Len(req.received) < MaxChunks
    /\ Len(req.received) < Len(StreamBody)
    /\ Commit(req, OnData(req, StreamBody[Len(req.received) + 1]))
    /\ UNCHANGED <<groups, providers, errors, now, stats, incTasks, logFile, served,
                   wres, route,
                   keys, stderr, admin, gate>>

\* response.data emits 'end'
StreamEnd ==
    /\ req.pc = "streaming"
    /\ Commit(req, OnEnd(req))
    /\ UNCHANGED <<groups, providers, errors, now, stats, incTasks, logFile, served,
                   wres, route,
                   keys, stderr, admin, gate>>

\* response.data emits 'error'
StreamError ==
    /\ req.pc = "streaming"
    /\ Commit(req, OnStreamError(req, "aborted"))
    /\ UNCHANGED <<groups, providers, errors, now, stats, incTasks, logFile, served,
                   wres, route,
                   keys, stderr, admin, gate>>

\* the client closes its connection while the response is being streamed;
\* handleForwarding registers no listener for it
ClientDisconnect ==
    /\ req.pc = "streaming"
    /\ ~req.res.closed
    /\ req' = [req EXCEPT !.res.closed = TRUE]
    /\ UNCHANGED <<groups, providers, errors, now, stats, incTasks, logFile, pendingLog,
                   served, wres, route,
                   keys, stderr, admin, gate>>

\* incFailure: await fs.readJson(FILES.STATS) resolves
IncFailureRead(i) ==
    /\ incTasks[i].phase = "read"
    /\ incTasks' = [incTasks EXCEPT ![i] = [@ EXCEPT !.phase = "write", !.snap = stats]]
    /\ UNCHANGED <<groups, providers, errors, now, stats, logFile, pendingLog, served,
                   req, wres, route,
                   keys, stderr, admin, gate>>

\* incFailure: await db.write(FILES.STATS, stats) resolves
IncFailureWrite(i) ==
    /\ incTasks[i].phase = "write"
    /\ stats' = Incremented(incTasks[i].snap, incTasks[i].name)
    /\ incTasks' = RemoveAt(incTasks, i)
    /\ UNCHANGED <<groups, providers, errors, now, logFile, pendingLog, served, req,
                   wres, route,
                   keys, stderr, admin, gate>>

\* logRequest: await fs.appendFile(logFile, logLine) resolves; line 92 then
\* throws a ReferenceError, which the catch of line 96 reports
LogAppend(i) ==
    /\ logFile' = Append(logFile, pendingLog[i])
    /\ pendingLog' = RemoveAt(pendingLog, i)
    /\ stderr' = stderr \cup {LogErrMsg("start is not defined")}
    /\ UNCHANGED <<groups, providers, errors, now, stats, incTasks, served, req, wres,
                   route, keys, admin, gate>>

\* faulty variant, used to test the properties: the failure reaches the client response
LogFailSurfaces(i, cause) ==
    /\ pendingLog' = RemoveAt(pendingLog, i)
    /\ stderr' = stderr \cup {LogErrMsg(cause)}
    /\ req' = [req EXCEPT !.res.status = 500]
    /\ UNCHANGED <<groups, providers, errors, now, stats, incTasks, logFile, served,
                   wres, route, keys, admin, gate>>

\* logRequest: JSON.stringify throws, or fs.appendFile rejects; the catch of
\* line 96 reports it and no line is appended
LogFail(i, cause) ==
    /\ pendingLog' = RemoveAt(pendingLog, i)
    /\ stderr' = stderr \cup {LogErrMsg(cause)}
    /\ UNCHANGED <<groups, providers, errors, now, stats, incTasks, logFile, served, req,
                   wres, route, keys, admin, gate>>

\* incFailure: fs.writeJson rejects inside db.write, whose catch (line 30)
\* reports it; stats.json is left as it was
IncFailureWriteFail(i) ==
    /\ incTasks[i].phase = "write"
    /\ incTasks' = RemoveAt(incTasks, i)
    /\ stderr' = stderr \cup {WriteErrMsg("stats.json")}
    /\ UNCHANGED <<groups, providers, errors, now, stats, logFile, pendingLog, served, req,
                   wres, route, keys, admin, gate>>

\* the wall clock advances
Tick(d) ==
    /\ now + d <= MaxTime
    /\ now' = now + d
    /\ UNCHANGED <<groups, providers, errors, stats, incTasks, logFile, pendingLog,
                   served, req, wres, route,
                   keys, stderr, admin, gate>>

Next ==
    \/ \E m \in ReqModels, ty \in ReqTypes, st \in BOOLEAN :
           Receive(<<"Bearer", "tokA">>, m, ty, st)
    \/ \E status \in SuccessStatuses : UpstreamSuccess(status)
    \/ \E out \in FailOutcomes : UpstreamFailure(out)
    \/ \E readOk \in BOOLEAN : ErrorBodyDrained(readOk)
    \/ StreamData
    \/ StreamEnd
    \/ StreamError
    \/ ClientDisconnect
    \/ \E i \in 1..Len(incTasks) : IncFailureRead(i)
    \/ \E i \in 1..Len(incTasks) : IncFailureWrite(i)
    \/ \E i \in 1..Len(pendingLog) : LogAppend(i)
    \/ \E d \in TickSteps : Tick(d)

Spec == Init /\ [][Next]_vars

----------------------------------------------------------------------------
(* utils/db.js: the appends of concurrent requests to the daily trace file. *)
(* Here the file is the sequence of the writes made to it, each a whole     *)
(* line, or the head or the tail of a line, of one trace; pendingLog holds  *)
(* the fs.appendFile calls in progress with what they have left to write.   *)

MaxTraces == 3   \* requests that hand their trace to logRequest

\* a request ends and calls db.logRequest, which no caller awaits: line 90
\* starts fs.appendFile while the appends of other requests are in progress
LogIssue ==
    /\ served < MaxTraces
    /\ served' = served + 1
    /\ pendingLog' = Append(pendingLog, [id |-> served + 1, rest |-> "line"])
    /\ UNCHANGED <<groups, providers, errors, now, stats, incTasks, logFile, req, wres,
                   route, keys, stderr, admin, gate>>

\* the write call of an append takes all the bytes it has left; lines 92-97
\* follow
AppendAll(i) ==
    /\ logFile' = Append(logFile, [id |-> pendingLog[i].id, part |-> pendingLog[i].rest])
    /\ pendingLog' = RemoveAt(pendingLog, i)
    /\ stderr' = stderr \cup {LogErrMsg("start is not defined")}
    /\ UNCHANGED <<groups, providers, errors, now, stats, incTasks, served, req, wres,
                   route, keys, admin, gate>>

\* the write call takes only a part of the line (a short write): appendFile
\* goes on with a further write call for the rest
AppendShort(i) ==
    /\ pendingLog[i].rest = "line"
    /\ logFile' = Append(logFile, [id |-> pendingLog[i].id, part |-> "head"])
    /\ pendingLog' = [pendingLog EXCEPT ![i].rest = "tail"]
    /\ UNCHANGED <<groups, providers, errors, now, stats, incTasks, served, req, wres,
                   route, keys, stderr, admin, gate>>

NextAppend ==
    \/ LogIssue
    \/ \E i \in 1..Len(pendingLog) : AppendAll(i)
    \/ \E i \in 1..Len(pendingLog) : AppendShort(i)

SpecAppend == Init /\ [][NextAppend]_vars

----------------------------------------------------------------------------
(* The upstream request headers and the log entry as functions of their     *)
(* inputs: forwarder.js lines 78-99 and db.js lines 59-83 on bounded values. *)

\* faulty variant, used to test the properties: x-api-key is not filtered
unsafeHeadersNoApiKey ==
    {"host", "content-length", "connection", "transfer-encoding", "authorization",
     "anthropic-version"}

\* line 79
unsafeHeaders ==
    {"host", "content-length", "connection", "transfer-encoding", "authorization",
     "x-api-key", "anthropic-version"}

\* key.toLowerCase() on the header names of req.headers, which Node's http
\* parser has already lower-cased; the names the gateway itself sets are the
\* only ones with capitals
toLowerCase(name) ==
    IF name = "Authorization" THEN "authorization"
    ELSE IF name = "Content-Type" THEN "content-type"
    ELSE name

\* lines 80-83
ClientHeaders(inbound) ==
    [name \in {n \in DOMAIN inbound : toLowerCase(n) \notin unsafeHeaders} |-> inbound[name]]

\* lines 92-99: later keys of the object literal replace earlier ones
RequestHeaders(inbound, provider, type) ==
    LET bearer == <<"Bearer">> \o provider.key
        own == IF type = "anthropic"
               THEN [x \in {"x-api-key", "Authorization", "anthropic-version"} |->
                        IF x = "x-api-key" THEN provider.key
                        ELSE IF x = "Authorization" THEN bearer
                        ELSE <<"2023-06-01">>]
               ELSE [x \in {"Authorization"} |-> bearer]
    IN  own @@ [x \in {"Content-Type"} |-> <<"application/json">>] @@ ClientHeaders(inbound)

\* inbound header sets: what is not a credential ...
InboundBases ==
    { [x \in {"user-agent"} |-> <<"curl">>],
      [x \in {"host", "user-agent", "accept"} |->
          IF x = "host" THEN <<"gateway.local">>
          ELSE IF x = "accept" THEN <<"*/*">> ELSE <<"curl">>],
      [x \in {"host", "content-length", "connection", "transfer-encoding", "content-type",
              "x-request-id"} |->
          IF x = "host" THEN <<"gateway.local">>
          ELSE IF x = "content-length" THEN <<"42">>
          ELSE IF x = "connection" THEN <<"keep-alive">>
          ELSE IF x = "transfer-encoding" THEN <<"chunked">>
          ELSE IF x = "content-type" THEN <<"application/json">>
          ELSE <<"r-1">>] }

\* ... and the credential headers, each absent or with one of two values
CredentialNames == {"authorization", "x-api-key", "anthropic-version"}
CredentialValues(name) ==
    IF name = "authorization" THEN {<<"Bearer", "tokA">>, <<"Bearer", "tokB">>}
    ELSE IF name = "x-api-key" THEN {<<"tokA">>, <<"tokB">>}
    ELSE {<<"2023-01-01">>, <<"2023-06-01">>}
InboundCredentials ==
    UNION {[names -> UNION {CredentialValues(n) : n \in names}] :
              names \in SUBSET CredentialNames}
WellTyped(creds) == \A n \in DOMAIN creds : creds[n] \in CredentialValues(n)
InboundHeaders ==
    {c @@ b : c \in {x \in InboundCredentials : WellTyped(x)}, b \in InboundBases}

HeaderProviders == {"pA", "pB"}

\* the headers of one attempt
MRequestHeaders(inbound, p, type) ==
    /\ wres' = [NoWres EXCEPT !.op = "headers", !.inbound = inbound, !.to = p,
                               !.type = type,
                               !.headers = RequestHeaders(inbound, providers[p], type)]
    /\ UNCHANGED <<groups, providers, errors, now, stats, incTasks, logFile, pendingLog,
                   served, req, route, keys, stderr, admin, gate>>

\* values a trace field can hold: nothing, text, parsed JSON, an object with a
\* pipe function, an object with a socket, and an object that holds one of
\* these under a property
Holder(v) == [kind |-> "object", from |-> "", data |-> <<>>, inner |-> v]
PlainValues == {NullBody, Text(<<"h", "i">>), UpstreamJson("pA")}
HandleValues == {[kind |-> "stream", from |-> "pA", data |-> <<>>],
                 [kind |-> "socket", from |-> "pA", data |-> <<>>]}
TraceValues ==
    PlainValues \cup HandleValues \cup {Holder(v) : v \in PlainValues \cup HandleValues}

\* a trace of one attempt carrying the given values
TraceOf(responseBody, error, finalResponse) ==
    [EmptyTrace(1, "g") EXCEPT
        !.status = 200,
        !.finalResponse = finalResponse,
        !.attempts = <<[provider |-> "pA", weight |-> [num |-> 1000, den |-> 1],
                        status |-> 200, code |-> "", error |-> error,
                        isStreaming |-> FALSE, responseBody |-> responseBody]>>]

\* db.logRequest up to the JSON.stringify of line 88: the entry handed to it
MLogRequest(responseBody, error, finalResponse) ==
    /\ wres' = [NoWres EXCEPT !.op = "log",
                               !.entry = LogEntry(TraceOf(responseBody, error,
                                                          finalResponse), "pA")]
    /\ UNCHANGED <<groups, providers, errors, now, stats, incTasks, logFile, pendingLog,
                   served, req, route, keys, stderr, admin, gate>>

MaxLines == 3   \* lines of the daily log read by the log query

\* Array.prototype.slice(start, end): a negative index counts from the end
slice(arr, start, end) ==
    LET len == Len(arr)
        from == IF start < 0 THEN (IF len + start > 0 THEN len + start ELSE 0)
                ELSE (IF start < len THEN start ELSE len)
        to == IF end < 0 THEN (IF len + end > 0 THEN len + end ELSE 0)
              ELSE (IF end < len THEN end ELSE len)
    IN  IF to > from THEN [k \in 1..(to - from) |-> arr[from + k]] ELSE <<>>

reverse(arr) == [k \in 1..Len(arr) |-> arr[Len(arr) + 1 - k]]

\* routes/admin.js lines 97-98 and 128-132 without keyword or filter:
\* parseInt(x) || default, then the page and its counters
logsPage(allLogs, queryOffset, queryLimit) ==
    LET offset == queryOffset
        limit == IF queryLimit = 0 THEN 10 ELSE queryLimit
        total == Len(allLogs)
        startIndex == IF total - offset - limit > 0 THEN total - offset - limit ELSE 0
        result == reverse(slice(allLogs, startIndex, total - offset))
    IN  [logs |-> result, hasMore |-> startIndex > 0, total |-> total,
         loaded |-> Len(result), filtered |-> FALSE]

\* GET /admin/api/logs?offset=..&limit=.. over a log of the given lines,
\* oldest first
MLogsQuery(total, offset, limit) ==
    /\ wres' = [NoWres EXCEPT !.op = "logs", !.was = [k \in 1..total |-> k],
                               !.inbound = [offset |-> offset, limit |-> limit],
                               !.entry = logsPage([k \in 1..total |-> k], offset, limit)]
    /\ UNCHANGED <<groups, providers, errors, now, stats, incTasks, logFile, pendingLog,
                   served, req, route, keys, stderr, admin, gate>>

NextMessage ==
    \/ \E total \in 0..MaxLines, offset \in 0..(2 * MaxLines), limit \in 1..MaxLines :
          MLogsQuery(total, offset, limit)
    \/ \E inbound \in InboundHeaders, p \in HeaderProviders, type \in ReqTypes :
          MRequestHeaders(inbound, p, type)
    \/ \E v1 \in TraceValues, v2 \in TraceValues, v3 \in TraceValues :
          MLogRequest(v1, v2, v3)

SpecMessage == Init /\ [][NextMessage]_vars

----------------------------------------------------------------------------
(* routes/admin.js: createCrud, and the gateway seen from its two front     *)
(* doors: the admin API and the authenticated /v1 routes.                    *)

MaxPendingWrites == 2   \* db.write calls of the admin API in progress at once

IdField(file) == IF file = "keys" THEN "id" ELSE "name"

\* the documents db.read returns
FileContent(file) ==
    IF file = "providers" THEN providers ELSE IF file = "groups" THEN groups ELSE keys

\* request bodies of POST /admin/api/<file>
CreateBodies(file) ==
    IF file = "providers"
    THEN {[name |-> "pN", key |-> <<"sk", "pN">>, realModel |-> Null]}
    ELSE IF file = "groups"
    THEN {[name |-> "gN", type |-> "openai", providers |-> <<"pA">>],
          [type |-> "openai", providers |-> <<"pA">>]}
    ELSE {[id |-> "k2", name |-> "bob", key |-> "tokN"]}

MaxUuids == 2   \* ids generated by the admin API per behaviour

\* uuidv4(): the n-th call returns an id no earlier call returned
uuidv4(n) == IF n = 1 THEN "uuid-1" ELSE IF n = 2 THEN "uuid-2" ELSE "uuid-3"

\* the create needs a generated id
NeedsUuid(file, body) == IdField(file) = "id" /\ "id" \notin DOMAIN body

\* line 20: req.body[idField] || (idField === 'id' ? uuidv4() : req.body.name)
CreateId(file, body, n) ==
    IF IdField(file) \in DOMAIN body THEN body[IdField(file)]
    ELSE IF IdField(file) = "id" THEN uuidv4(n)
    ELSE IF "name" \in DOMAIN body THEN body.name ELSE Null

\* line 22: { ...req.body, [idField]: id }
CreateRecord(file, body, n) ==
    IF IdField(file) \in DOMAIN body THEN body
    ELSE (IdField(file) :> CreateId(file, body, n)) @@ body

\* POST /admin/api/<file>, lines 18-25: the file is read, the record is put
\* into the object read, db.write is started and not awaited, and the
\* response is sent (400 without an id)
AdminCreate(file, body) ==
    /\ Len(admin.writes) < MaxPendingWrites
    /\ NeedsUuid(file, body) => admin.uuids < MaxUuids
    /\ LET id == CreateId(file, body, admin.uuids + 1)
           data == (id :> CreateRecord(file, body, admin.uuids + 1)) @@ FileContent(file)
       IN  admin' = IF id = Null
                    THEN [admin EXCEPT !.last = [op |-> "create", status |-> 400,
                                                 file |-> file, data |-> <<>>]]
                    ELSE [admin EXCEPT
                             !.writes = Append(@, [file |-> file, data |-> data]),
                             !.acked = @ \cup {[op |-> "create", file |-> file, id |-> id]},
                             !.uuids = IF NeedsUuid(file, body) THEN @ + 1 ELSE @,
                             !.last = [op |-> "create", status |-> 200,
                                       file |-> file, data |-> <<>>]]
    /\ UNCHANGED <<groups, providers, errors, now, stats, incTasks, logFile, pendingLog,
                   served, req, wres, route, keys, stderr, gate>>

\* DELETE /admin/api/<file>/:id, lines 26-31: read, delete the entry, start
\* db.write, answer
AdminDelete(file, id) ==
    /\ Len(admin.writes) < MaxPendingWrites
    /\ LET old == FileContent(file)
           data == [k \in DOMAIN old \ {id} |-> old[k]]
       IN  admin' = [admin EXCEPT
                        !.writes = Append(@, [file |-> file, data |-> data]),
                        !.acked = @ \cup {[op |-> "delete", file |-> file, id |-> id]},
                        !.last = [op |-> "delete", status |-> 200,
                                  file |-> file, data |-> <<>>]]
    /\ UNCHANGED <<groups, providers, errors, now, stats, incTasks, logFile, pendingLog,
                   served, req, wres, route, keys, stderr, gate>>

\* db.write started at line 23: fs.writeJson replaces the file with the object written
AdminWriteDone(i) ==
    /\ LET w == admin.writes[i]
       IN  /\ providers' = IF w.file = "providers" THEN w.data ELSE providers
           /\ groups' = IF w.file = "groups" THEN w.data ELSE groups
           /\ keys' = IF w.file = "keys" THEN w.data ELSE keys
    /\ admin' = [admin EXCEPT !.writes = RemoveAt(@, i)]
    /\ UNCHANGED <<errors, now, stats, incTasks, logFile, pendingLog, served, req, wres,
                   route, stderr, gate>>

\* GET /admin/api/<file>, line 17
AdminList(file) ==
    /\ admin' = [admin EXCEPT !.last = [op |-> "list", status |-> 200, file |-> file,
                                        data |-> FileContent(file)]]
    /\ UNCHANGED <<groups, providers, errors, now, stats, incTasks, logFile, pendingLog,
                   served, req, wres, route, keys, stderr, gate>>

AdminFiles == {"providers", "groups", "keys"}
FrontModels == {"g", "gN", "none"}
FrontFailOutcomes == {out \in FailOutcomes : out.status = 503}

NextFront ==
    \/ \E file \in AdminFiles : \E body \in CreateBodies(file) : AdminCreate(file, body)
    \/ \E i \in 1..Len(admin.writes) : AdminWriteDone(i)
    \/ \E file \in AdminFiles : AdminList(file)
    \/ \E h \in AuthHeaders : Reject(h)
    \/ \E h \in AuthHeaders, m \in FrontModels : Receive(h, m, "openai", FALSE)
    \/ UpstreamSuccess(200)
    \/ \E out \in FrontFailOutcomes : UpstreamFailure(out)
    \/ \E i \in 1..Len(incTasks) : IncFailureRead(i)
    \/ \E i \in 1..Len(incTasks) : IncFailureWrite(i)
    \/ \E i \in 1..Len(pendingLog) : LogAppend(i)

SpecFront == Init /\ [][NextFront]_vars

\* the admin API alone, with creates and deletes overlapping on one file
AdminBodies(file) ==
    IF file = "providers"
    THEN {[name |-> "pN", key |-> <<"sk", "pN">>, realModel |-> Null],
          [name |-> "pM", key |-> <<"sk", "pM">>, realModel |-> Null]}
    ELSE IF file = "groups"
    THEN {[name |-> "gN", type |-> "openai", providers |-> <<"pA">>]}
    ELSE {[name |-> "bob"]}

DeleteIds(file) ==
    IF file = "providers" THEN {"pB"} ELSE IF file = "groups" THEN {"e"} ELSE {"k1"}

NextAdmin ==
    \/ \E file \in AdminFiles : \E body \in AdminBodies(file) : AdminCreate(file, body)
    \/ \E file \in AdminFiles : \E id \in DeleteIds(file) : AdminDelete(file, id)
    \/ \E i \in 1..Len(admin.writes) : AdminWriteDone(i)
    \/ \E file \in AdminFiles : AdminList(file)

SpecAdmin == Init /\ [][NextAdmin]_vars

----------------------------------------------------------------------------
(* The engine with failing file operations: requests on group g and on an    *)
(* unknown model, whose trace append and stats write may each fail.          *)

IoModels == {"g", "none"}
IoFailOutcomes == {out \in FailOutcomes : out.status = 503 \/ out.code = "ECONNABORTED"}
IoCauses == {"Converting circular structure to JSON", "ENOSPC"}

NextIo ==
    \/ \E m \in IoModels, st \in BOOLEAN : Receive(<<"Bearer", "tokA">>, m, "openai", st)
    \/ UpstreamSuccess(200)
    \/ \E out \in IoFailOutcomes : UpstreamFailure(out)
    \/ ErrorBodyDrained(TRUE)
    \/ StreamData
    \/ StreamEnd
    \/ \E i \in 1..Len(incTasks) : IncFailureRead(i)
    \/ \E i \in 1..Len(incTasks) : IncFailureWrite(i)
    \/ \E i \in 1..Len(incTasks) : IncFailureWriteFail(i)
    \/ \E i \in 1..Len(pendingLog) : LogAppend(i)
    \/ \E i \in 1..Len(pendingLog), cause \in IoCauses : LogFail(i, cause)

SpecIo == Init /\ [][NextIo]_vars

----------------------------------------------------------------------------
(* The health tracker and the candidate ordering on their own: the tracker's *)
(* operations and the ordering of lines 59-76 applied to bounded inputs.     *)
(* wres and route hold the result of the operation just performed.           *)

RecordStatuses == {429, 500, 404}
WBases == {1000, 100}
RouteGroups == {"g", "e", "dup", "tie", "long"}

EventsOf(errs, providerName) ==
    IF providerName \in DOMAIN errs THEN errs[providerName] ELSE <<>>

\* errorTracker.recordError(p, status), as a failed attempt of any request calls it
WRecordError(p, status) ==
    /\ Len(EventsOf(errors, p)) < MaxEvents
    /\ errors' = recordError(errors, p, status, now)
    /\ wres' = [NoWres EXCEPT !.op = "record", !.to = p, !.status = status]
    /\ route' = NoRoute
    /\ UNCHANGED <<groups, providers, now, stats, incTasks, logFile, pendingLog, served,
                   req,
                   keys, stderr, admin, gate>>

\* errorTracker.getWeight(p, base)
WGetWeight(p, base) ==
    /\ errors' = getWeightErrors(errors, p, now)
    /\ wres' = [NoWres EXCEPT !.name = p, !.base = base,
                               !.weight = getWeight(errors, p, base, now),
                               !.at = now, !.before = EventsOf(errors, p)]
    /\ route' = NoRoute
    /\ UNCHANGED <<groups, providers, now, stats, incTasks, logFile, pendingLog, served,
                   req,
                   keys, stderr, admin, gate>>

\* errorTracker.getStats(p)
WGetStats(p) ==
    /\ errors' = cleanup(errors, p, now)
    /\ wres' = [NoWres EXCEPT !.statsOf = p, !.stats = getStats(errors, p, now),
                               !.at = now, !.before = EventsOf(errors, p)]
    /\ route' = NoRoute
    /\ UNCHANGED <<groups, providers, now, stats, incTasks, logFile, pendingLog, served,
                   req,
                   keys, stderr, admin, gate>>

\* faulty variant, used to test the properties: the reset forgets every provider
resetWeightAll(errs, providerName) == <<>>

\* routes/admin.js line 64: if (errorTracker.errors[pName]) delete ...; an
\* empty array is truthy
resetWeight(errs, providerName) ==
    [q \in DOMAIN errs \ {providerName} |-> errs[q]]

\* POST /weight-reset/:providerName, admin.js lines 62-66
WReset(p) ==
    /\ errors' = resetWeight(errors, p)
    /\ wres' = [NoWres EXCEPT !.op = "reset", !.to = p, !.was = errors]
    /\ route' = NoRoute
    /\ UNCHANGED <<groups, providers, now, stats, incTasks, logFile, pendingLog, served,
                   req, keys, stderr, admin, gate>>

\* POST /weight-clear-all, admin.js lines 68-71
WClearAll ==
    /\ errors' = <<>>
    /\ wres' = [NoWres EXCEPT !.op = "clear", !.was = errors]
    /\ route' = NoRoute
    /\ UNCHANGED <<groups, providers, now, stats, incTasks, logFile, pendingLog, served,
                   req, keys, stderr, admin, gate>>

\* lines 59-76 for group g
WRoute(g) ==
    /\ errors' = ErrorsAfterWeights(errors, ExistingCandidates(groups[g], providers), now)
    /\ route' = [group |-> g, candidates |-> Candidates(groups[g], providers, errors, now),
                 at |-> now, before |-> errors]
    /\ wres' = NoWres
    /\ UNCHANGED <<groups, providers, now, stats, incTasks, logFile, pendingLog, served,
                   req,
                   keys, stderr, admin, gate>>

WTick(d) ==
    /\ now + d <= MaxTime
    /\ now' = now + d
    /\ wres' = NoWres
    /\ route' = NoRoute
    /\ UNCHANGED <<groups, providers, errors, stats, incTasks, logFile, pendingLog, served,
                   req,
                   keys, stderr, admin, gate>>

NextWeight ==
    \/ \E p \in Tracked, status \in RecordStatuses : WRecordError(p, status)
    \/ \E p \in Tracked, base \in WBases : WGetWeight(p, base)
    \/ \E p \in Tracked : WGetStats(p)
    \/ \E p \in Tracked : WReset(p)
    \/ WClearAll
    \/ \E g \in RouteGroups : WRoute(g)
    \/ \E d \in WTickSteps : WTick(d)

SpecWeight == Init /\ [][NextWeight]_vars

----------------------------------------------------------------------------
(* The engine while other requests fail: their attempts record health        *)
(* events (forwarder lines 229-231) between the steps of the request.       *)

RaceModels == {"g", "dup"}
RaceStatuses == {429, 503}

\* a failed attempt of another request calls errorTracker.recordError
OtherRequestFails(p, status) ==
    /\ Len(EventsOf(errors, p)) < MaxEvents
    /\ errors' = recordError(errors, p, status, now)
    /\ UNCHANGED <<groups, providers, now, stats, incTasks, logFile, pendingLog, served,
                   req, wres, route, keys, stderr, admin, gate>>

NextRace ==
    \/ \E m \in RaceModels : Receive(<<"Bearer", "tokA">>, m, "openai", FALSE)
    \/ \E p \in Tracked, status \in RaceStatuses : OtherRequestFails(p, status)
    \/ UpstreamSuccess(200)
    \/ \E out \in FrontFailOutcomes : UpstreamFailure(out)
    \/ \E i \in 1..Len(incTasks) : IncFailureRead(i)
    \/ \E i \in 1..Len(incTasks) : IncFailureWrite(i)
    \/ \E i \in 1..Len(pendingLog) : LogAppend(i)

SpecRace == Init /\ [][NextRace]_vars

----------------------------------------------------------------------------
(* Properties *)

Over == req.pc \in {"done", "crashed"}
GroupKey == FindGroup(groups, req.model)
\* the request names a group whose protocol is the endpoint's
Matched == req.pc # "idle" /\ GroupKey # Null /\ groups[GroupKey].type = req.type
Is2xx(status) == status >= 200 /\ status < 300
Names(seq) == [i \in 1..Len(seq) |-> seq[i].name]
AttemptProviders(entry) == [i \in 1..Len(entry.attempts) |-> entry.attempts[i].provider]
IsPrefix(a, b) == Len(a) <= Len(b) /\ \A i \in 1..Len(a) : a[i] = b[i]
NoCallSucceeded == \A i \in 1..Len(req.outcomes) : req.outcomes[i].kind # "ok"

\* C1: every request that reached handleForwarding, whatever its outcome (a
\* group record without a providers list included), has had db.logRequest
\* invoked with its trace exactly once: never twice, and once when it is over.
C1_TraceLoggedExactlyOnce ==
    /\ Len(req.logged) <= 1
    /\ Over => Len(req.logged) = 1

\* C2: a request naming a group of the matching protocol is answered either with
\* the response of the first candidate, in sorted order, whose call returned
\* 2xx, or with a 502 when every candidate failed or there is none; no
\* candidate after the first 2xx one is contacted.
C2_FirstSuccessOrBadGateway ==
    Matched =>
        /\ IsPrefix(req.contacted, Names(req.candidates))
        /\ req.okAt # 0 => Len(req.contacted) = req.okAt
        /\ Over =>
            \/ /\ req.okAt # 0
               /\ \A i \in 1..(req.okAt - 1) : req.outcomes[i].kind # "ok"
               /\ req.res.ended = 1
               /\ req.res.headersFrom = req.candidates[req.okAt].name
               /\ IF req.stream
                  THEN req.res.chunks = req.received
                  ELSE req.res.body = UpstreamJson(req.candidates[req.okAt].name)
            \/ /\ NoCallSucceeded
               /\ Len(req.contacted) = Len(req.candidates)
               /\ req.res.ended = 1
               /\ req.res.status = 502

\* C3: the client response is completed (res.json or res.end) at most once per
\* request, and while the loop is still trying candidates, after any number of
\* failed attempts, nothing has been sent to the client.
C3_AtMostOneTerminalResponse ==
    /\ req.res.ended <= 1
    /\ req.pc \in {"awaiting", "draining"} => req.res = FreshRes

C3_Witness ==
    /\ req.pc = "done"
    /\ req.okAt = 2
    /\ Len(req.trace.attempts) = 2
    /\ req.res.ended = 1

C5_AllFailedIsBadGateway ==
    (req.pc = "done" /\ Matched /\ "providers" \in DOMAIN groups[GroupKey]
        /\ NoCallSucceeded) =>
        /\ req.res.status = 502
        /\ req.res.ended = 1
        /\ req.res.body.kind = "error"
        /\ req.res.body.data[1] = "All providers failed"
        /\ Len(req.outcomes) = Len(req.candidates)
        /\ req.candidates # <<>> =>
               req.res.body.data[2] = req.outcomes[Len(req.outcomes)].msg
        /\ Len(req.logged) = 1
        /\ LET e == req.logged[1].entry
           IN  /\ e.status = 502
               /\ e.finalResponse = req.res.body
               /\ Len(e.attempts) = Len(req.candidates)
               /\ \A i \in 1..Len(e.attempts) :
                      /\ e.attempts[i].provider = req.candidates[i].name
                      /\ e.attempts[i].error # NullBody
                      /\ ~(e.attempts[i].code = "" /\ Is2xx(e.attempts[i].status))

C5_Witness ==
    /\ req.pc = "done"
    /\ Len(req.candidates) = 2
    /\ Len(req.outcomes) = 2
    /\ NoCallSucceeded
    /\ req.res.status = 502
    /\ req.res.body.data[2] = "timeout of 60000ms exceeded"

\* C6: with no group named body.model the client gets 404, with a group of
\* another protocol 400; in both cases no upstream request is issued and the
\* trace written has no attempt and the status sent to the client.
C6_RoutingFailure ==
    (req.pc # "idle" /\ (GroupKey = Null \/ groups[GroupKey].type # req.type)) =>
        /\ req.pc = "done"
        /\ req.contacted = <<>>
        /\ req.res.ended = 1
        /\ req.res.status = IF GroupKey = Null THEN 404 ELSE 400
        /\ Len(req.logged) = 1
        /\ req.logged[1].entry.attempts = <<>>
        /\ req.logged[1].entry.status = req.res.status

C6_Witness ==
    /\ req.pc = "done"
    /\ req.model = "g"
    /\ req.type = "anthropic"
    /\ req.res.status = 400

----------------------------------------------------------------------------
(* Properties of the tracker and of the ordering, under SpecWeight *)

RECURSIVE Pow(_, _)
Pow(b, n) == IF n = 0 THEN 1 ELSE b * Pow(b, n - 1)

InWindow(events, t) == {i \in 1..Len(events) : t - events[i].timestamp < WINDOW_MS}

\* the product of 5 per in-window 429 event and 3 per in-window 5xx event
ExpectedPenalty(events, t) ==
    Pow(5, Cardinality({i \in InWindow(events, t) : events[i].status = 429})) *
    Pow(3, Cardinality({i \in InWindow(events, t) :
                           events[i].status >= 500 /\ events[i].status < 600}))

ExpectedWeight(group, providerName, errs, t) ==
    [num |-> 1000 - 100 * IndexOf(group.providers, providerName),
     den |-> ExpectedPenalty(EventsOf(errs, providerName), t)]

Occurrences(seq, x) == Cardinality({i \in 1..Len(seq) : seq[i] = x})

\* C7: the candidate list is the group's existing providers sorted by effective
\* weight (base 1000-100*i over the health penalty), descending, and candidates
\* of equal effective weight keep their group-list order.
C7_SortedByWeightStable ==
    route.group # Null =>
        LET g == groups[route.group]
            c == route.candidates
        IN  /\ \A n \in StoredProviders \cup {"pX"} :
                   Occurrences(Names(c), n) =
                       IF n \in DOMAIN providers THEN Occurrences(g.providers, n) ELSE 0
            /\ \A i \in 1..Len(c) :
                   WEq(c[i].calcWeight, ExpectedWeight(g, c[i].name, route.before, route.at))
            /\ \A i, j \in 1..Len(c) :
                   i < j =>
                       /\ ~WLess(c[i].calcWeight, c[j].calcWeight)
                       /\ WEq(c[i].calcWeight, c[j].calcWeight) =>
                              IndexOf(g.providers, c[i].name) <= IndexOf(g.providers, c[j].name)

C7_Witness ==
    /\ route.group = "tie"
    /\ Names(route.candidates) = <<"f1", "f2", "f3", "pA", "pB">>
    /\ WEq(route.candidates[4].calcWeight, route.candidates[5].calcWeight)

\* C8: getWeight(p, B) is B over the product, over p's events still inside the
\* 60 s window, of 5 per 429 and 3 per 5xx; it is B when there is none.
C8_WeightIsBaseOverPenalty ==
    wres.name # Null =>
        /\ wres.weight.den > 0
        /\ WEq(wres.weight,
               [num |-> wres.base, den |-> ExpectedPenalty(wres.before, wres.at)])
        /\ InWindow(wres.before, wres.at) = {} => wres.weight = [num |-> wres.base, den |-> 1]

C8_Witness ==
    /\ wres.name # Null
    /\ wres.base = 1000
    /\ Len(wres.before) = 2
    /\ \A i \in 1..2 : /\ wres.before[i].status = 429
                       /\ wres.at - wres.before[i].timestamp = 30000
    /\ WEq(wres.weight, [num |-> 40, den |-> 1])

AllOlderThanWindow(events, t) ==
    \A i \in 1..Len(events) : t - events[i].timestamp > WINDOW_MS

\* C9: once every event of a provider is more than 60 s old, getWeight(p, B)
\* returns B again, whatever the events were.
C9_PenaltyExpires ==
    (wres.name # Null /\ AllOlderThanWindow(wres.before, wres.at)) =>
        wres.weight = [num |-> wres.base, den |-> 1]

C9_Witness ==
    /\ wres.name # Null
    /\ Len(wres.before) = 2
    /\ AllOlderThanWindow(wres.before, wres.at)
    /\ wres.weight = [num |-> wres.base, den |-> 1]

\* position of provider p in the candidate order of group g (0-based, -1: absent)
Rank(g, p, errs, t) == IndexOf(Names(Candidates(groups[g], providers, errs, t)), p)

\* C10: recording a penalizing error for a provider never moves it earlier in
\* the candidate order of any group, lists of more than 10 providers included.
C10_PenaltyNeverPromotes ==
    [][\A p \in Tracked, status \in {429, 500} :
          (errors' = recordError(errors, p, status, now) /\ now' = now) =>
              \A g \in RouteGroups : Rank(g, p, errors', now') >= Rank(g, p, errors, now)]_vars

----------------------------------------------------------------------------
(* Properties of the failure path and of streaming, under Spec *)

StatsOf(s, providerName) == IF providerName \in DOMAIN s THEN s[providerName] ELSE 0

\* the calls of the request that ended in a non-2xx status or a transport error
FailedCallsOn(providerName) ==
    {i \in 1..Len(req.outcomes) :
        req.outcomes[i].kind # "ok" /\ req.contacted[i] = providerName}

\* C11: once the counter updates have settled, the persisted failures counter
\* of every provider has grown by one per failed attempt on it; stated for the
\* first request, which starts from an empty stats.json: both counters are 1
\* after pA and pB both failed.
C11_FailuresCountedOnce ==
    (served = 1 /\ Over /\ incTasks = <<>>) =>
        \A p \in Tracked : StatsOf(stats, p) = Cardinality(FailedCallsOn(p))

\* C12: the failures counter stored in stats.json never decreases for any
\* provider, and stats.json changes only when an incFailure started by a failed
\* attempt completes its write.
C12_FailuresMonotonic ==
    [][/\ \A p \in Tracked : StatsOf(stats', p) >= StatsOf(stats, p)
       /\ stats' # stats =>
              \E i \in 1..Len(incTasks) :
                  incTasks[i].phase = "write" /\ incTasks' = RemoveAt(incTasks, i)]_vars

\* a step in which the catch block of the attempt loop completes: the attempt
\* of a call that was rejected is appended to the trace
FailedAttemptStep ==
    /\ req.pc \in {"awaiting", "draining"}
    /\ req'.id = req.id
    /\ Len(req'.trace.attempts) = Len(req.trace.attempts) + 1
    /\ req'.trace.attempts[Len(req'.trace.attempts)].error # NullBody

LastAttempt == req.trace.attempts[Len(req.trace.attempts)]
\* the request was answered 2xx in streaming mode
Streamed == req.stream /\ req.okAt # 0
StreamedCleanEnd == Streamed /\ req.pc = "done" /\ LastAttempt.error = NullBody
StreamedError == Streamed /\ req.pc = "done" /\ LastAttempt.error # NullBody

\* C14: in streaming mode the chunks handed to the client response are at
\* every moment a prefix, in order, of the chunks received from the selected
\* upstream, and once the upstream stream is over the two sequences are equal.
C14_ClientChunksPrefixOfUpstream ==
    /\ IsPrefix(req.res.chunks, req.received)
    /\ (Streamed /\ req.pc = "done") => req.res.chunks = req.received

C14_Witness ==
    /\ StreamedCleanEnd
    /\ Len(req.received) = 2
    /\ req.res.chunks = <<StreamBody[1], StreamBody[2]>>

RECURSIVE Concat(_)
Concat(chunks) == IF chunks = <<>> THEN <<>> ELSE Head(chunks) \o Concat(Tail(chunks))

\* C15: after a streamed 2xx response has ended cleanly, the responseBody of
\* the trace's last attempt and the trace's finalResponse are both the text of
\* the in-order concatenation of the chunks received from the upstream.
C15_CapturedBodyIsConcatenation ==
    StreamedCleanEnd =>
        /\ LastAttempt.responseBody = Text(ChunkToString(Concat(req.received)))
        /\ req.trace.finalResponse = Text(ChunkToString(Concat(req.received)))

\* C16: once an upstream has answered 2xx in streaming mode no further
\* upstream call is issued by the request; after a mid-stream error the client
\* response is ended, the request is over and the remaining candidates are
\* left untried.
C16_NoRetryAfterStreamStart ==
    Streamed =>
        /\ req.pc \in {"streaming", "done"}
        /\ req.contacted = [i \in 1..req.okAt |-> req.candidates[i].name]
        /\ Len(req.outcomes) = req.okAt
        /\ StreamedError => req.res.ended = 1

C16_Witness ==
    /\ StreamedError
    /\ req.okAt = 1
    /\ Len(req.candidates) = 2
    /\ req.contacted = <<"pA">>
    /\ Len(req.received) = 1
    /\ req.res.ended = 1

\* C17: after a mid-stream error the attempt recorded in the trace has status
\* 500, its error set, and the data buffered so far as its responseBody.
C17_StreamErrorAttempt ==
    StreamedError =>
        /\ LastAttempt.status = 500
        /\ LastAttempt.error # NullBody
        /\ LastAttempt.responseBody = Text(req.fullStreamData)

\* C18: every call of db.logRequest is made after the client response has been
\* completed (res.end or res.json), whatever the outcome of the request.
C18_LogAfterResponse ==
    \A k \in 1..Len(req.logged) : req.logged[k].resEnded >= 1

\* C19: after the client has disconnected during a streamed response the
\* engine calls res.write no more, and the trace is still written exactly once,
\* with what was buffered.
C19_NoWriteAfterDisconnect ==
    /\ req.res.lateWrites = 0
    /\ (req.res.closed /\ req.pc = "done") =>
           /\ Len(req.logged) = 1
           /\ req.logged[1].entry.finalResponse = Text(req.fullStreamData)

\* C20: at most one upstream call of a request is pending at any time; a call
\* is pending exactly while the loop awaits it, every earlier call has by then
\* failed and its attempt, error body read, is in the trace; while an error
\* body is being read no call is pending.
C20_OneUpstreamInFlight ==
    LET pendingCalls == Len(req.contacted) - Len(req.outcomes) IN
    /\ pendingCalls \in {0, 1}
    /\ pendingCalls = 1 <=> req.pc = "awaiting"
    /\ req.pc \in {"awaiting", "draining"} =>
           /\ Len(req.trace.attempts) = Len(req.contacted) - 1
           /\ \A i \in 1..Len(req.trace.attempts) :
                  /\ req.outcomes[i].kind # "ok"
                  /\ req.trace.attempts[i].error # NullBody

C20_Witness ==
    /\ req.pc = "awaiting"
    /\ req.stream
    /\ req.contacted = <<"pA", "pB">>
    /\ Len(req.trace.attempts) = 1
    /\ req.outcomes[1].kind = "http"
    /\ req.trace.attempts[1].error = UpstreamJson("pA")

----------------------------------------------------------------------------
(* Properties of what is sent upstream and back, under Spec *)

\* C23: the data of every upstream call is the inbound body with only its
\* model replaced, by the provider's realModel when it has one and by the
\* inbound model otherwise; req.body stays as it was received, so a later
\* attempt does not inherit the model of an earlier one.
C23_BodyForwardedExceptModel ==
    /\ req.pc # "idle" => req.body = [model |-> req.model, stream |-> req.stream,
                                      messages |-> "user: hi"]
    /\ Len(req.sentBodies) = Len(req.contacted)
    /\ \A i \in 1..Len(req.sentBodies) :
           LET p == providers[req.contacted[i]]
           IN  /\ req.sentBodies[i].stream = req.stream
               /\ req.sentBodies[i].messages = "user: hi"
               /\ req.sentBodies[i].model =
                      IF p.realModel # Null THEN p.realModel ELSE req.model

C23_Witness ==
    /\ req.contacted = <<"pA", "pB">>
    /\ req.sentBodies[1].model = "real-A"
    /\ req.sentBodies[2].model = "g"
    /\ req.body.model = "g"

\* C24: when a candidate answered 2xx, the status the client receives is the
\* status of that upstream response, in unary and in streaming mode.
C24_SuccessStatusPassthrough ==
    (req.okAt # 0 /\ req.res.status # 0) => req.res.status = req.outcomes[req.okAt].status

\* C27: an exception thrown inside handleForwarding (a group record without a
\* providers list) ends with the client receiving a 503; no request is left
\* without a response.
C27_UncaughtGives503 ==
    req.pc = "crashed" => (req.res.ended = 1 /\ req.res.status = 503)

\* C29: a name listed in the group and absent from providers.json is not a
\* candidate, is never called, gets no failure counted and no health record,
\* and each candidate's base weight is 1000 - 100 * its position in the
\* group's list, the absent names counted.
C29_AbsentProviderSkipped ==
    (Matched /\ "providers" \in DOMAIN groups[GroupKey]) =>
        LET listed == groups[GroupKey].providers
            absent == {listed[i] : i \in 1..Len(listed)} \ DOMAIN providers
        IN  /\ \A n \in absent :
                   /\ \A i \in 1..Len(req.candidates) : req.candidates[i].name # n
                   /\ \A i \in 1..Len(req.contacted) : req.contacted[i] # n
                   /\ \A i \in 1..Len(incTasks) : incTasks[i].name # n
                   /\ n \notin DOMAIN stats
                   /\ n \notin DOMAIN errors
            /\ Len(req.candidates) =
                   Cardinality({i \in 1..Len(listed) : listed[i] \in DOMAIN providers})
            /\ \A i \in 1..Len(req.candidates) :
                   \E k \in 1..Len(listed) :
                       /\ listed[k] = req.candidates[i].name
                       /\ \A j \in 1..(k - 1) : listed[j] # listed[k]
                       /\ req.candidates[i].baseWeight = 1000 - 100 * (k - 1)

C29_Witness ==
    /\ req.model = "g"
    /\ req.pc = "done"
    /\ Names(req.candidates) = <<"pA", "pB">>
    /\ req.candidates[2].baseWeight = 800
    /\ Len(req.trace.attempts) = 2
    /\ DOMAIN stats = {"pA", "pB"}

----------------------------------------------------------------------------
(* Reads of the health record, under SpecWeight *)

\* the record of provider p right after a read at time t that found events
\* before: only entries younger than 60 s, in the order they were recorded
ReadObserved(p, before, t) ==
    LET seen == EventsOf(errors, p)
    IN  /\ \A i \in 1..Len(seen) : t - seen[i].timestamp < 60000
        /\ seen = SelectSeq(before, LAMBDA e : t - e.timestamp < 60000)
        /\ \A i, j \in 1..Len(seen) : i < j => seen[i].timestamp <= seen[j].timestamp

\* C30: what getWeight and getStats read of a provider's health record is the
\* entries of age strictly below 60 s at the time of the read, in the order
\* recorded; getStats returns their number and the most recent of them, or
\* null when there is none.
C30_ReadsSeeOnlyRecentEntries ==
    /\ wres.name # Null => ReadObserved(wres.name, wres.before, wres.at)
    /\ wres.statsOf # Null =>
           LET seen == EventsOf(errors, wres.statsOf)
           IN  /\ ReadObserved(wres.statsOf, wres.before, wres.at)
               /\ wres.stats.recentErrors = Len(seen)
               /\ wres.stats.lastError =
                      IF seen = <<>> THEN <<>> ELSE <<seen[Len(seen)]>>

C30_Witness ==
    /\ wres.statsOf = "pA"
    /\ Len(wres.before) = 2
    /\ wres.at - wres.before[1].timestamp = 60000
    /\ wres.stats.recentErrors = 1
    /\ wres.stats.lastError = <<wres.before[2]>>

----------------------------------------------------------------------------
(* Properties of the front doors, under SpecFront *)

\* the header carries the Bearer scheme and a token that is the key of a
\* stored access key
TokenStored(authHeader, keysData) ==
    /\ Len(authHeader) = 2
    /\ authHeader[1] = "Bearer"
    /\ \E k \in DOMAIN keysData :
           "key" \in DOMAIN keysData[k] /\ keysData[k].key = authHeader[2]

C28_CreateVisibleToNextRequest ==
    \A a \in admin.acked : a.id \in DOMAIN FileContent(a.file)

----------------------------------------------------------------------------
(* Failing file operations, under SpecIo *)

\* the client response as the inbound request and the upstream calls alone
\* determine it
ExpectedRes(r) ==
    LET k == FindGroup(groups, r.model) IN
    IF k = Null THEN ResJson([r EXCEPT !.res = FreshRes], 404, NotFoundBody(r.model)).res
    ELSE IF groups[k].type # r.type
    THEN ResJson([r EXCEPT !.res = FreshRes], 400, MismatchBody).res
    ELSE IF r.okAt # 0 /\ ~r.stream
    THEN [FreshRes EXCEPT !.status = r.outcomes[r.okAt].status,
                          !.headersFrom = r.candidates[r.okAt].name,
                          !.body = UpstreamJson(r.candidates[r.okAt].name), !.ended = 1]
    ELSE IF r.okAt # 0
    THEN [FreshRes EXCEPT !.status = IF r.received = <<>> /\ r.pc # "done" THEN 0 ELSE 200,
                          !.headersFrom = r.candidates[r.okAt].name,
                          !.chunks = r.received,
                          !.ended = IF r.pc = "done" THEN 1 ELSE 0]
    ELSE IF r.pc = "done"
    THEN [FreshRes EXCEPT !.status = 502, !.ended = 1,
                          !.body = AllFailedBody(IF r.outcomes = <<>> THEN Null
                                                 ELSE r.outcomes[Len(r.outcomes)].msg)]
    ELSE FreshRes

\* a trace append or a stats write completes, with or without an error
FileOpCompletes ==
    \/ Len(pendingLog') < Len(pendingLog)
    \/ Len(incTasks') < Len(incTasks)

\* a trace append completes and the log file has no new line
AppendFailed == Len(pendingLog') < Len(pendingLog) /\ logFile' = logFile

\* C26: whether the trace appends and the stats writes succeed or fail, the
\* client response is the one the request and the upstream calls determine;
\* a failing write changes nothing of the request and is reported on the
\* error log.
C26_WriteFailureInvisibleToClient ==
    /\ [](req.pc # "idle" => req.res = ExpectedRes(req))
    /\ [][FileOpCompletes => (req' = req /\ errors' = errors /\ served' = served)]_vars
    /\ [][AppendFailed => \E c \in IoCauses : LogErrMsg(c) \in stderr']_vars

C26_Witness ==
    /\ req.pc = "done"
    /\ req.res.status = 502
    /\ Len(req.outcomes) = 2
    /\ pendingLog = <<>> /\ incTasks = <<>>
    /\ logFile = <<>>
    /\ stats = <<>>
    /\ LogErrMsg("ENOSPC") \in stderr
    /\ WriteErrMsg("stats.json") \in stderr

----------------------------------------------------------------------------
(* Properties of the message functions, under SpecMessage *)

\* the value is, or holds at some depth, an object with a pipe function or a
\* socket
RECURSIVE ContainsHandle(_)
ContainsHandle(v) ==
    \/ IsHandle(v)
    \/ "inner" \in DOMAIN v /\ ContainsHandle(v.inner)

SameButCredentials(h1, h2) ==
    /\ DOMAIN h1 \ CredentialNames = DOMAIN h2 \ CredentialNames
    /\ \A n \in DOMAIN h1 \ CredentialNames : h1[n] = h2[n]

\* what the provider alone determines of the upstream headers
ProviderCredentials(provider, type) ==
    IF type = "anthropic"
    THEN [x \in {"x-api-key", "Authorization", "anthropic-version"} |->
             IF x = "x-api-key" THEN provider.key
             ELSE IF x = "Authorization" THEN <<"Bearer">> \o provider.key
             ELSE <<"2023-06-01">>]
    ELSE [x \in {"Authorization"} |-> <<"Bearer">> \o provider.key]

HopByHop == {"host", "content-length", "connection", "transfer-encoding"}

\* C22: the headers sent to a provider are the same for any two inbound
\* requests that differ only in authorization, x-api-key or
\* anthropic-version; the credential headers sent are the provider's own, and
\* no host, content-length, connection or transfer-encoding header is sent.
C22_UpstreamCredentialsFromProviderOnly ==
    wres.op = "headers" =>
        /\ \A other \in InboundHeaders :
               SameButCredentials(other, wres.inbound) =>
                   RequestHeaders(other, providers[wres.to], wres.type) = wres.headers
        /\ LET sent == {n \in DOMAIN wres.headers :
                            toLowerCase(n) \in CredentialNames}
               own == ProviderCredentials(providers[wres.to], wres.type)
           IN  sent = DOMAIN own /\ \A n \in sent : wres.headers[n] = own[n]
        /\ \A n \in DOMAIN wres.headers : toLowerCase(n) \notin HopByHop

C22_Witness ==
    /\ wres.op = "headers"
    /\ wres.type = "openai"
    /\ wres.to = "pB"
    /\ {"authorization", "x-api-key", "anthropic-version", "host"} \subseteq DOMAIN wres.inbound
    /\ wres.inbound["x-api-key"] = <<"tokB">>
    /\ DOMAIN wres.headers = {"Authorization", "Content-Type", "content-type", "x-request-id"}
    /\ wres.headers["Authorization"] = <<"Bearer", "sk", "pB">>

----------------------------------------------------------------------------
(* The health tracker's writers, under SpecWeight *)

C32_ResetRemovesOnlyThatProvider ==
    /\ [](wres.op = "reset" =>
            /\ wres.to \notin DOMAIN errors
            /\ DOMAIN errors = DOMAIN wres.was \ {wres.to}
            /\ \A b \in WBases :
                   /\ getWeight(errors, wres.to, b, now) = [num |-> b, den |-> 1]
                   /\ \A q \in DOMAIN errors :
                          /\ errors[q] = wres.was[q]
                          /\ getWeight(errors, q, b, now) = getWeight(wres.was, q, b, now))
    /\ [](wres.op = "clear" =>
            /\ DOMAIN errors = {}
            /\ \A q \in Tracked, b \in WBases :
                   getWeight(errors, q, b, now) = [num |-> b, den |-> 1])
    /\ [][wres'.op \in {"reset", "clear"} => (stats' = stats /\ incTasks' = incTasks)]_vars

C32_Witness ==
    /\ wres.op = "reset"
    /\ wres.to = "pA"
    /\ Len(EventsOf(wres.was, "pA")) = 2
    /\ Len(EventsOf(errors, "pB")) = 1
    /\ getWeight(wres.was, "pA", 1000, now) # [num |-> 1000, den |-> 1]
    /\ getWeight(errors, "pB", 1000, now) # [num |-> 1000, den |-> 1]

----------------------------------------------------------------------------
(* The trace recorder's own reports, under Spec (where every append succeeds) *)

\* C33: an append that succeeded is not reported as an I/O error: the error
\* log holds no "Log serialization/write failed" line.
C33_SucceededAppendNotReported ==
    \A m \in stderr : m[1] # "[IO Error] Log serialization/write failed:"

----------------------------------------------------------------------------
(* The paginated log query, under SpecMessage *)

\* the entries ranked offset .. offset+limit-1 counting from the newest,
\* newest first
ExpectedPage(allLogs, offset, limit) ==
    LET total == Len(allLogs)
        left == IF total - offset > 0 THEN total - offset ELSE 0
        n == IF limit < left THEN limit ELSE left
    IN  [k \in 1..n |-> allLogs[total - offset - (k - 1)]]

\* C34: the page returned is the entries ranked offset .. offset+limit-1 from
\* the newest, newest first; it is empty when offset >= total; hasMore tells
\* whether entries older than the page exist.
C34_PageIsRanksFromNewest ==
    wres.op = "logs" =>
        LET total == Len(wres.was)
            offset == wres.inbound.offset
            limit == wres.inbound.limit
        IN  /\ wres.entry.logs = ExpectedPage(wres.was, offset, limit)
            /\ offset >= total => wres.entry.logs = <<>>
            /\ wres.entry.hasMore <=> total - offset - limit > 0

----------------------------------------------------------------------------
(* The admin API under overlapping operations, under SpecAdmin *)

\* the file shows what the acknowledged operation did
Applied(a) ==
    IF a.op = "create" THEN a.id \in DOMAIN FileContent(a.file)
    ELSE a.id \notin DOMAIN FileContent(a.file)

\* C35: once every write has completed, the file shows the effect of every
\* create and delete that was acknowledged, whatever their interleaving.
C35_OverlappingWritesKeepBoth ==
    admin.writes = <<>> => \A a \in admin.acked : Applied(a)

\* C36: every stored access key has a token.
C36_StoredKeyHasToken ==
    \A k \in DOMAIN keys : "key" \in DOMAIN keys[k]

----------------------------------------------------------------------------
(* The trace file under concurrent appends, under SpecAppend *)

\* C37: the bytes of every line are contiguous in the file (a line begun is
\* completed before anything else is written), and once all appends are done
\* every trace has exactly one complete line.
C37_LinesNeverInterleaved ==
    /\ \A k \in 1..Len(logFile) :
           (logFile[k].part = "head" /\ k < Len(logFile)) =>
               logFile[k + 1] = [id |-> logFile[k].id, part |-> "tail"]
    /\ pendingLog = <<>> =>
           \A id \in 1..served :
               Cardinality({k \in 1..Len(logFile) :
                               logFile[k].id = id /\ logFile[k].part \in {"line", "tail"}}) = 1

----------------------------------------------------------------------------
(* The candidate order under health events, under SpecRace *)

\* the order the tracker would give the group's candidates now
LiveOrder == Names(Candidates(groups[GroupKey], providers, errors, now))

\* C38: the candidate list is the one computed from the tracker at routing
\* time and stays that list until the request ends; the providers are
\* contacted in its order, and every attempt stores the weight its candidate
\* got at routing time.
C38_OrderFixedAtRouting ==
    /\ [](Matched /\ req.pc # "crashed" =>
            /\ Names(req.candidates) = Names(req.trace.route.candidates)
            /\ IsPrefix(req.contacted, Names(req.candidates))
            /\ \A i \in 1..Len(req.trace.attempts) :
                   /\ req.trace.attempts[i].provider = req.candidates[i].name
                   /\ req.trace.attempts[i].weight = req.candidates[i].calcWeight
                   /\ ToFixed1(req.trace.attempts[i].weight)
                          = req.trace.route.candidates[i].weight)
    /\ [][/\ (served' = served + 1 /\ req'.pc \notin {"done", "crashed"}) =>
              req'.candidates =
                  Candidates(groups[FindGroup(groups, req'.model)], providers, errors, now)
          /\ (served' = served /\ req.pc # "idle") =>
              (req'.candidates = req.candidates
               /\ req'.trace.route = req.trace.route)]_vars

C38_Witness ==
    /\ req.model = "dup"
    /\ req.pc = "awaiting"
    /\ req.idx = 2
    /\ Names(req.candidates) = <<"pA", "pA", "pB">>
    /\ req.contacted = <<"pA", "pA">>
    /\ LiveOrder = <<"pB", "pA", "pA">>
    /\ EventsOf(errors, "pB") # <<>>

\* C39: within one request no provider is contacted twice, and the calls made
\* are at most as many as the distinct stored providers of the group.
C39_EachProviderAtMostOnce ==
    (Matched /\ req.pc # "crashed") =>
        /\ \A i, j \in 1..Len(req.contacted) :
               i # j => req.contacted[i] # req.contacted[j]
        /\ Len(req.contacted) <=
               Cardinality({n \in DOMAIN providers :
                               \E k \in 1..Len(groups[GroupKey].providers) :
                                   groups[GroupKey].providers[k] = n})

----------------------------------------------------------------------------
(* What a request that never failed leaves behind, under Spec *)

\* the request ended in a routing failure
RoutingFailed == req.pc = "done" /\ req.res.status \in {404, 400}
\* the first upstream call of the request was answered 2xx
FirstSucceeded == req.okAt = 1

\* C40 as stated: after a routing failure or a first-attempt success the
\* tracker's map and stats.json are what they were when the request came in.
C40_RequestLeavesHealthUntouched ==
    (RoutingFailed \/ FirstSucceeded) =>
        (errors = req.atStart.errors /\ stats = req.atStart.stats)

\* C40, amended: a routing failure leaves the tracker's map and stats.json as
\* they were; a first-attempt success leaves stats.json as it was and changes
\* the map only by dropping, for the candidates, the events that had left the
\* window at routing time, so that no provider's weight changes.
C40_SuccessLeavesHealthAndCounters ==
    /\ RoutingFailed =>
           (errors = req.atStart.errors /\ stats = req.atStart.stats /\ incTasks = <<>>)
    /\ FirstSucceeded =>
           /\ stats = req.atStart.stats /\ incTasks = <<>>
           /\ DOMAIN errors = DOMAIN req.atStart.errors
           /\ \A p \in DOMAIN errors :
                  errors[p] = IF \E i \in 1..Len(req.candidates) : req.candidates[i].name = p
                              THEN KeepWithinWindow(req.atStart.errors[p], req.atStart.now)
                              ELSE req.atStart.errors[p]
           /\ \A p \in Tracked, b \in WBases :
                  getWeight(errors, p, b, now) = getWeight(req.atStart.errors, p, b, now)

C40_Witness ==
    /\ FirstSucceeded
    /\ req.pc = "done"
    /\ req.id = 2
    /\ req.contacted = <<"pB">>
    /\ EventsOf(errors, "pA") # <<>>
    /\ errors = req.atStart.errors
    /\ "pA" \in DOMAIN stats
    /\ getWeight(errors, "pA", 1000, now) # [num |-> 1000, den |-> 1]

====
